---- MODULE Spec2Model ----
(***************************************************************************)
(* The typing-game coordinator (server/src/main.rs): one shared sentence   *)
(* behind a mutex, a tokio broadcast channel, and one spawned handler per  *)
(* accepted connection.  Participants are the environment: they send text  *)
(* messages on their link and may close it.                                *)
(*                                                                         *)
(* Text is a sequence of one-byte characters, so Len is the byte length    *)
(* that str::len() returns; a message is what msg.to_text() yields for it. *)
(* The listener is taken as bound and healthy: accept() keeps returning    *)
(* Ok.  The broadcast channel is tokio's: one shared ring of the last      *)
(* Capacity values and a cursor per receiver.                              *)
(***************************************************************************)
EXTENDS Integers, Sequences, FiniteSets

\* The participants: each may connect once.
Conn == {"A", "B"}

\* No handler holds the lock.
None == "none"

\* Most non-empty messages all participants together put on their links.
MaxLen == 3

\* Most messages in flight on one link.
MaxInbox == 1

\* Slots of the broadcast channel (broadcast::channel(100), scaled down).
Capacity == 2

Hello == <<"h", "e", "l", "l", "o">>

\* The text messages each participant may send: A types a letter or the word
\* "hello", B a letter, a blank or an empty message.
Words(c) ==
    IF c = "A" THEN { <<"a">>, Hello }
    ELSE { <<"b">>, <<" ">>, <<>> }

VARIABLES
    sentence,      \* the shared text behind the mutex
    lockHolder,    \* the handler holding the mutex, or None
    published,     \* every value passed to tx.send, in order
    pc,            \* each handler's position
    cur,           \* each handler's local: msg_text, current or msg
    rxNext,        \* each receiver's cursor into published
    rxDisabled,    \* select!: the rx.recv() branch is disabled in this wait
    inbox,         \* messages in flight from the participant to its handler
    ended,         \* the participant's link is closed or broken
    sent,          \* snapshots written to the participant's link, in order
    contributed,   \* history: the non-empty messages the participant sent
    textAtConnect  \* history: the shared text when the handshake completed,
                   \* kept until the initial snapshot has been sent

\* The participant program (client/src/main.rs): the fields of App, the
\* channel between its two tasks and each task's position.
VARIABLES
    server_ip,     \* the host argument, a sequence of characters
    startup,       \* main before the host check, past it, or exited by it
    state,         \* App.state
    current_input, \* App.current_input
    app_sentence,  \* App.sentence, the participant's copy of the shared text
    chars_typed,   \* App.chars_typed
    should_quit,   \* App.should_quit
    event_rx,      \* the AppEvents queued on the unbounded channel
    ws_pc,         \* the network task's position in run_websocket_client
    ui_pc          \* main's position: in run_app, past it, or past the abort

svars == <<sentence, lockHolder, published, pc, cur, rxNext, rxDisabled,
           inbox, ended, sent, contributed, textAtConnect>>

cvars == <<server_ip, startup, state, current_input, app_sentence,
           chars_typed, should_quit, event_rx, ws_pc, ui_pc>>

vars == <<svars, cvars>>

----------------------------------------------------------------------------
\* Pure helpers

IsPrefix(s, t) == Len(s) <= Len(t) /\ SubSeq(t, 1, Len(s)) = s

RECURSIVE SumLen(_, _)
SumLen(f, S) ==
    IF S = {} THEN 0
    ELSE LET c == CHOOSE x \in S : TRUE
         IN Len(f[c]) + SumLen(f, S \ {c})

\* msg_text.len() == 1
Valid(m) == Len(m) = 1

PushStrOverwrite(s, m) == m

PushStrFront(s, m) == m \o s

\* s.push_str(msg_text)
PushStr(s, m) == s \o m

EmptySnapshot == <<>>

\* sentence.lock().unwrap().clone()
CurrentSnapshot == sentence

\* The oldest position the channel still retains.
Oldest == IF Len(published) > Capacity THEN Len(published) - Capacity ELSE 0

\* rx.recv() would return Err(Lagged)
Lagged(c) == rxNext[c] < Oldest

\* The receivers that exist: created at accept, dropped with the task.
Subscribed == { c \in Conn : pc[c] \notin {"idle", "panicked"} }

\* write.send(text): reaches the participant only over a live link.
WriteSend(c, text) == IF ended[c] THEN sent[c] ELSE Append(sent[c], text)

----------------------------------------------------------------------------
\* "127.0.0.1", the host used when no argument is given.
DefaultHost == <<"1", "2", "7", ".", "0", ".", "0", ".", "1">>

\* App::new(server_url), the channel and the two tasks as main creates them.
AppNew ==
    /\ state = "Welcome"
    /\ current_input = <<>>
    /\ app_sentence = <<>>
    /\ chars_typed = 0
    /\ should_quit = FALSE
    /\ event_rx = <<>>
    /\ ws_pc = "recv"
    /\ ui_pc = "run"

\* The shared sentence, the channel and the handlers before any accept.
ServerNew ==
    /\ sentence = <<>>
    /\ lockHolder = None
    /\ published = <<>>
    /\ pc = [c \in Conn |-> "idle"]
    /\ cur = [c \in Conn |-> <<>>]
    /\ rxNext = [c \in Conn |-> 0]
    /\ rxDisabled = [c \in Conn |-> FALSE]
    /\ inbox = [c \in Conn |-> <<>>]
    /\ ended = [c \in Conn |-> FALSE]
    /\ sent = [c \in Conn |-> <<>>]
    /\ contributed = [c \in Conn |-> <<>>]
    /\ textAtConnect = [c \in Conn |-> <<>>]

Init ==
    /\ ServerNew
    /\ server_ip = DefaultHost
    /\ startup = "running"
    /\ AppNew

\* listener.accept() returns a stream; the receiver is subscribed and the
\* handler task spawned.
Accept(c) ==
    /\ pc[c] = "idle"
    /\ pc' = [pc EXCEPT ![c] = "handshake"]
    /\ rxNext' = [rxNext EXCEPT ![c] = Len(published)]
    /\ UNCHANGED <<sentence, lockHolder, published, cur, rxDisabled, inbox,
                   ended, sent, contributed, textAtConnect>>
    /\ UNCHANGED cvars

\* accept_async(stream) returns Ok.
HandshakeOk(c) ==
    /\ pc[c] = "handshake"
    /\ ~ended[c]
    /\ pc' = [pc EXCEPT ![c] = "init"]
    /\ textAtConnect' = [textAtConnect EXCEPT ![c] = sentence]
    /\ UNCHANGED <<sentence, lockHolder, published, cur, rxNext, rxDisabled,
                   inbox, ended, sent, contributed>>
    /\ UNCHANGED cvars

HandshakeFailAbort(c) ==
    /\ pc[c] = "handshake"
    /\ pc' = [d \in Conn |-> "panicked"]
    /\ ended' = [d \in Conn |-> TRUE]
    /\ UNCHANGED <<sentence, lockHolder, published, cur, rxNext, rxDisabled,
                   inbox, sent, contributed, textAtConnect>>
    /\ UNCHANGED cvars

\* accept_async(stream) returns Err: unwrap() panics and the task ends.
HandshakeFail(c) ==
    /\ pc[c] = "handshake"
    /\ pc' = [pc EXCEPT ![c] = "panicked"]
    /\ ended' = [ended EXCEPT ![c] = TRUE]
    /\ UNCHANGED <<sentence, lockHolder, published, cur, rxNext, rxDisabled,
                   inbox, sent, contributed, textAtConnect>>
    /\ UNCHANGED cvars

\* let current = sentence.lock().unwrap().clone();
ReadCurrent(c) ==
    /\ pc[c] = "init"
    /\ lockHolder = None
    /\ cur' = [cur EXCEPT ![c] = CurrentSnapshot]
    /\ pc' = [pc EXCEPT ![c] = "sendInit"]
    /\ UNCHANGED <<sentence, lockHolder, published, rxNext, rxDisabled, inbox,
                   ended, sent, contributed, textAtConnect>>
    /\ UNCHANGED cvars

\* let _ = write.send(current.clone().into()).await;
SendCurrent(c) ==
    /\ pc[c] = "sendInit"
    /\ sent' = [sent EXCEPT ![c] = WriteSend(c, cur[c])]
    /\ cur' = [cur EXCEPT ![c] = <<>>]
    /\ pc' = [pc EXCEPT ![c] = "select"]
    /\ textAtConnect' = [textAtConnect EXCEPT ![c] = <<>>]
    /\ UNCHANGED <<sentence, lockHolder, published, rxNext, rxDisabled, inbox,
                   ended, contributed>>
    /\ UNCHANGED cvars

RecvMsgReply(c) ==
    /\ pc[c] = "select"
    /\ inbox[c] # <<>>
    /\ inbox' = [inbox EXCEPT ![c] = Tail(inbox[c])]
    /\ rxDisabled' = [rxDisabled EXCEPT ![c] = FALSE]
    /\ IF Valid(Head(inbox[c]))
       THEN /\ pc' = [pc EXCEPT ![c] = "wantLock"]
            /\ cur' = [cur EXCEPT ![c] = Head(inbox[c])]
            /\ sent' = sent
       ELSE /\ pc' = pc
            /\ cur' = cur
            /\ sent' = [sent EXCEPT ![c] = WriteSend(c, <<"?">>)]
    /\ UNCHANGED <<sentence, lockHolder, published, rxNext, ended,
                   contributed, textAtConnect>>
    /\ UNCHANGED cvars

\* Some(Ok(msg)) = read.next(): the branch body up to the length test; a
\* message of any other length ends the branch and the loop waits again.
RecvMsg(c) ==
    /\ pc[c] = "select"
    /\ inbox[c] # <<>>
    /\ inbox' = [inbox EXCEPT ![c] = Tail(inbox[c])]
    /\ rxDisabled' = [rxDisabled EXCEPT ![c] = FALSE]
    /\ IF Valid(Head(inbox[c]))
       THEN /\ pc' = [pc EXCEPT ![c] = "wantLock"]
            /\ cur' = [cur EXCEPT ![c] = Head(inbox[c])]
       ELSE /\ pc' = pc
            /\ cur' = cur
    /\ UNCHANGED <<sentence, lockHolder, published, rxNext, ended, sent,
                   contributed, textAtConnect>>
    /\ UNCHANGED cvars

\* let mut s = sentence.lock().unwrap();
Lock(c) ==
    /\ pc[c] = "wantLock"
    /\ lockHolder = None
    /\ lockHolder' = c
    /\ pc' = [pc EXCEPT ![c] = "locked"]
    /\ UNCHANGED <<sentence, published, cur, rxNext, rxDisabled, inbox, ended,
                   sent, contributed, textAtConnect>>
    /\ UNCHANGED cvars

\* A critical section that ends with the append: the publish is outside it.
AppendMsgUnlock(c) ==
    /\ pc[c] = "locked"
    /\ sentence' = PushStr(sentence, cur[c])
    /\ lockHolder' = None
    /\ pc' = [pc EXCEPT ![c] = "appended"]
    /\ UNCHANGED <<published, cur, rxNext, rxDisabled, inbox, ended, sent,
                   contributed, textAtConnect>>
    /\ UNCHANGED cvars

\* A guard that outlives the block: the handler waits with the lock held.
PublishKeepLock(c) ==
    /\ pc[c] = "appended"
    /\ published' = Append(published, sentence)
    /\ cur' = [cur EXCEPT ![c] = <<>>]
    /\ pc' = [pc EXCEPT ![c] = "select"]
    /\ UNCHANGED <<sentence, lockHolder, rxNext, rxDisabled, inbox, ended,
                   sent, contributed, textAtConnect>>
    /\ UNCHANGED cvars

\* s.push_str(msg_text);
AppendMsg(c) ==
    /\ pc[c] = "locked"
    /\ sentence' = PushStr(sentence, cur[c])
    /\ pc' = [pc EXCEPT ![c] = "appended"]
    /\ UNCHANGED <<lockHolder, published, cur, rxNext, rxDisabled, inbox,
                   ended, sent, contributed, textAtConnect>>
    /\ UNCHANGED cvars

PublishToOthers(c) ==
    /\ pc[c] = "appended"
    /\ published' = Append(published, sentence)
    /\ rxNext' = [rxNext EXCEPT ![c] = Len(published) + 1]
    /\ lockHolder' = None
    /\ cur' = [cur EXCEPT ![c] = <<>>]
    /\ pc' = [pc EXCEPT ![c] = "select"]
    /\ UNCHANGED <<sentence, rxDisabled, inbox, ended, sent, contributed,
                   textAtConnect>>
    /\ UNCHANGED cvars

\* let _ = tx.send(s.clone()); the guard is dropped at the end of the block
\* and the loop waits again.
Publish(c) ==
    /\ pc[c] = "appended"
    /\ published' = Append(published, sentence)
    /\ lockHolder' = None
    /\ cur' = [cur EXCEPT ![c] = <<>>]
    /\ pc' = [pc EXCEPT ![c] = "select"]
    /\ UNCHANGED <<sentence, rxNext, rxDisabled, inbox, ended, sent,
                   contributed, textAtConnect>>
    /\ UNCHANGED cvars

\* A receiver that hands out the newest retained value first.
RecvBroadcastLifo(c) ==
    /\ pc[c] = "select"
    /\ ~rxDisabled[c]
    /\ ~Lagged(c)
    /\ rxNext[c] < Len(published)
    /\ cur' = [cur EXCEPT ![c] = published[Len(published) - rxNext[c]]]
    /\ rxNext' = [rxNext EXCEPT ![c] = rxNext[c] + 1]
    /\ pc' = [pc EXCEPT ![c] = "forward"]
    /\ UNCHANGED <<sentence, lockHolder, published, rxDisabled, inbox, ended,
                   sent, contributed, textAtConnect>>
    /\ UNCHANGED cvars

\* Ok(msg) = rx.recv()
RecvBroadcast(c) ==
    /\ pc[c] = "select"
    /\ ~rxDisabled[c]
    /\ ~Lagged(c)
    /\ rxNext[c] < Len(published)
    /\ cur' = [cur EXCEPT ![c] = published[rxNext[c] + 1]]
    /\ rxNext' = [rxNext EXCEPT ![c] = rxNext[c] + 1]
    /\ pc' = [pc EXCEPT ![c] = "forward"]
    /\ UNCHANGED <<sentence, lockHolder, published, rxDisabled, inbox, ended,
                   sent, contributed, textAtConnect>>
    /\ UNCHANGED cvars

\* rx.recv() yields Err(Lagged): the cursor moves to the oldest retained
\* value, the pattern fails and select! disables the branch for this wait.
RecvLagged(c) ==
    /\ pc[c] = "select"
    /\ ~rxDisabled[c]
    /\ Lagged(c)
    /\ rxNext' = [rxNext EXCEPT ![c] = Oldest]
    /\ rxDisabled' = [rxDisabled EXCEPT ![c] = TRUE]
    /\ UNCHANGED <<sentence, lockHolder, published, pc, cur, inbox, ended,
                   sent, contributed, textAtConnect>>
    /\ UNCHANGED cvars

\* let _ = write.send(msg.into()).await; and the loop waits again.
Forward(c) ==
    /\ pc[c] = "forward"
    /\ sent' = [sent EXCEPT ![c] = WriteSend(c, cur[c])]
    /\ cur' = [cur EXCEPT ![c] = <<>>]
    /\ pc' = [pc EXCEPT ![c] = "select"]
    /\ UNCHANGED <<sentence, lockHolder, published, rxNext, rxDisabled, inbox,
                   ended, contributed, textAtConnect>>
    /\ UNCHANGED cvars

\* read.next() yields None or Some(Err) while the rx.recv() branch is
\* disabled: select! has every branch disabled and no else branch, and panics.
SelectPanic(c) ==
    /\ pc[c] = "select"
    /\ rxDisabled[c]
    /\ ended[c]
    /\ inbox[c] = <<>>
    /\ pc' = [pc EXCEPT ![c] = "panicked"]
    /\ UNCHANGED <<sentence, lockHolder, published, cur, rxNext, rxDisabled,
                   inbox, ended, sent, contributed, textAtConnect>>
    /\ UNCHANGED cvars

\* The participant sends a text message on its established link.
ClientSend(c, m) ==
    /\ pc[c] \notin {"idle", "handshake", "panicked"}
    /\ ~ended[c]
    /\ Len(inbox[c]) < MaxInbox
    /\ m # <<>> => SumLen(contributed, Conn) < MaxLen
    /\ inbox' = [inbox EXCEPT ![c] = Append(inbox[c], m)]
    /\ contributed' = [contributed EXCEPT ![c] =
                          IF m # <<>> THEN Append(contributed[c], m)
                          ELSE contributed[c]]
    /\ UNCHANGED <<sentence, lockHolder, published, pc, cur, rxNext,
                   rxDisabled, ended, sent, textAtConnect>>
    /\ UNCHANGED cvars

\* The participant's link closes or breaks.
ClientClose(c) ==
    /\ pc[c] \notin {"idle", "panicked"}
    /\ ~ended[c]
    /\ ended' = [ended EXCEPT ![c] = TRUE]
    /\ UNCHANGED <<sentence, lockHolder, published, pc, cur, rxNext,
                   rxDisabled, inbox, sent, contributed, textAtConnect>>
    /\ UNCHANGED cvars

\* The steps of handler c's task.
HandlerStep(c) ==
    \/ HandshakeOk(c)
    \/ HandshakeFail(c)
    \/ ReadCurrent(c)
    \/ SendCurrent(c)
    \/ RecvMsg(c)
    \/ Lock(c)
    \/ AppendMsg(c)
    \/ Publish(c)
    \/ RecvBroadcast(c)
    \/ RecvLagged(c)
    \/ Forward(c)
    \/ SelectPanic(c)

Next ==
    \E c \in Conn :
        \/ Accept(c)
        \/ HandlerStep(c)
        \/ \E m \in Words(c) : ClientSend(c, m)
        \/ ClientClose(c)

Spec == Init /\ [][Next]_vars

\* Tokio schedules every spawned task that can run: each handler's steps
\* are weakly fair.  Participants are under no obligation.
FairSpec == Spec /\ \A c \in Conn : WF_vars(HandlerStep(c))

\* select! polls its branches in random order: a branch that is ready again
\* and again is not passed over for ever, so the two branches of the loop
\* are strongly fair on top of the task's weak fairness.
FairSelectSpec ==
    /\ Spec
    /\ \A c \in Conn :
          /\ WF_vars(HandlerStep(c))
          /\ SF_vars(RecvBroadcast(c))
          /\ SF_vars(RecvMsg(c))

----------------------------------------------------------------------------
\* The participant program: the UI task (run_app, handle_key_event) and the
\* network task (run_websocket_client) share App behind a mutex and talk
\* over the unbounded channel.  Each action is what one task does between
\* two awaits.  The keys modelled are Enter, Esc, Backspace and two
\* character keys; the help toggle, the typing speed and the status and
\* error texts are left out.

\* Most characters in the input buffer.
MaxInput == 2

\* Most AppEvents a key may leave queued on the channel.
MaxEvents == 2

\* Most characters counted in chars_typed.
MaxChars == 4

\* KeyCode::Char(c): a letter and a blank.
Chars == {"q", " "}

Keys == {"Enter", "Esc", "Backspace"} \cup Chars

\* The snapshots the link may deliver.
Snapshots == { <<"a">>, <<"a", "b">> }

Connect == <<"Connect">>
Disconnect == <<"Disconnect">>
Quit == <<"Quit">>
SendWord(word) == <<"SendWord", word>>

RECURSIVE TrimStart(_)
TrimStart(s) ==
    IF s # <<>> /\ Head(s) = " " THEN TrimStart(Tail(s)) ELSE s

RECURSIVE TrimEnd(_)
TrimEnd(s) ==
    IF s # <<>> /\ s[Len(s)] = " "
    THEN TrimEnd(SubSeq(s, 1, Len(s) - 1))
    ELSE s

\* str::trim()
Trim(s) == TrimEnd(TrimStart(s))

send_word_untrimmed(input, typed) ==
    IF input # <<>>
    THEN [some |-> TRUE, word |-> input, input |-> <<>>,
          typed |-> typed + Len(input) + 1]
    ELSE [some |-> FALSE, word |-> <<>>, input |-> input, typed |-> typed]

send_word_uncounted(input, typed) ==
    IF Trim(input) # <<>>
    THEN [some |-> TRUE, word |-> Trim(input), input |-> <<>>,
          typed |-> typed + Len(Trim(input))]
    ELSE [some |-> FALSE, word |-> <<>>, input |-> input, typed |-> typed]

\* App::send_word: the returned Option, and current_input and chars_typed
\* as it leaves them.
send_word(input, typed) ==
    IF Trim(input) # <<>>
    THEN [some |-> TRUE, word |-> Trim(input), input |-> <<>>,
          typed |-> typed + Len(Trim(input)) + 1]
    ELSE [some |-> FALSE, word |-> <<>>, input |-> input, typed |-> typed]

update_sentence_merge(old, new_sentence) == old \o new_sentence

\* App::update_sentence
update_sentence(old, new_sentence) == new_sentence

\* String::pop
Pop(s) == IF s = <<>> THEN s ELSE SubSeq(s, 1, Len(s) - 1)

\* handle_key_event, AppState::Welcome
KeyWelcome(k) ==
    IF k = "Enter"
    THEN /\ Len(event_rx) < MaxEvents
         /\ state' = "Connecting"
         /\ event_rx' = Append(event_rx, Connect)
         /\ UNCHANGED <<current_input, chars_typed, should_quit>>
    ELSE IF k = "q"
    THEN /\ should_quit' = TRUE
         /\ UNCHANGED <<state, current_input, chars_typed, event_rx>>
    ELSE UNCHANGED <<state, current_input, chars_typed, should_quit,
                     event_rx>>

\* handle_key_event, AppState::Connected
KeyConnected(k) ==
    IF k \in Chars
    THEN /\ Len(current_input) < MaxInput
         /\ current_input' = Append(current_input, k)
         /\ UNCHANGED <<state, chars_typed, should_quit, event_rx>>
    ELSE IF k = "Backspace"
    THEN /\ current_input' = Pop(current_input)
         /\ UNCHANGED <<state, chars_typed, should_quit, event_rx>>
    ELSE IF k = "Enter"
    THEN LET r == send_word(current_input, chars_typed) IN
         /\ r.some => (Len(event_rx) < MaxEvents /\ r.typed <= MaxChars)
         /\ current_input' = r.input
         /\ chars_typed' = r.typed
         /\ event_rx' = IF r.some THEN Append(event_rx, SendWord(r.word))
                        ELSE event_rx
         /\ UNCHANGED <<state, should_quit>>
    ELSE /\ Len(event_rx) < MaxEvents
         /\ state' = "Welcome"
         /\ current_input' = <<>>
         /\ event_rx' = Append(event_rx, Disconnect)
         /\ UNCHANGED <<chars_typed, should_quit>>

\* handle_key_event, AppState::Connecting
KeyConnecting(k) ==
    IF k = "Esc"
    THEN /\ state' = "Welcome"
         /\ UNCHANGED <<current_input, chars_typed, should_quit, event_rx>>
    ELSE IF k = "q"
    THEN /\ should_quit' = TRUE
         /\ UNCHANGED <<state, current_input, chars_typed, event_rx>>
    ELSE UNCHANGED <<state, current_input, chars_typed, should_quit,
                     event_rx>>

\* handle_key_event, AppState::Disconnected
KeyDisconnected(k) ==
    IF k = "Enter"
    THEN /\ Len(event_rx) < MaxEvents
         /\ state' = "Connecting"
         /\ event_rx' = Append(event_rx, Connect)
         /\ UNCHANGED <<current_input, chars_typed, should_quit>>
    ELSE IF k = "Esc"
    THEN /\ state' = "Welcome"
         /\ UNCHANGED <<current_input, chars_typed, should_quit, event_rx>>
    ELSE IF k = "q"
    THEN /\ should_quit' = TRUE
         /\ UNCHANGED <<state, current_input, chars_typed, event_rx>>
    ELSE UNCHANGED <<state, current_input, chars_typed, should_quit,
                     event_rx>>

\* run_app reads a key press and handle_key_event handles it under the lock.
KeyEvent(k) ==
    /\ ui_pc = "run"
    /\ ~should_quit
    /\ IF state = "Welcome" THEN KeyWelcome(k)
       ELSE IF state = "Connected" THEN KeyConnected(k)
       ELSE IF state = "Connecting" THEN KeyConnecting(k)
       ELSE KeyDisconnected(k)
    /\ UNCHANGED <<server_ip, startup, app_sentence, ws_pc, ui_pc>>
    /\ UNCHANGED svars

\* run_app finds should_quit set: it sends Quit and leaves its loop.
QuitLoop ==
    /\ ui_pc = "run"
    /\ should_quit
    /\ event_rx' = Append(event_rx, Quit)
    /\ ui_pc' = "cleanup"
    /\ UNCHANGED <<server_ip, startup, state, current_input, app_sentence,
                   chars_typed, should_quit, ws_pc>>
    /\ UNCHANGED svars

AbortNothing ==
    /\ ui_pc = "cleanup"
    /\ ui_pc' = "exited"
    /\ UNCHANGED <<server_ip, startup, state, current_input, app_sentence,
                   chars_typed, should_quit, event_rx, ws_pc>>
    /\ UNCHANGED svars

\* ws_handle.abort(): the network task is cancelled where it waits, unless
\* it has returned already.
Abort ==
    /\ ui_pc = "cleanup"
    /\ ui_pc' = "exited"
    /\ ws_pc' = IF ws_pc = "returned" THEN "returned" ELSE "aborted"
    /\ UNCHANGED <<server_ip, startup, state, current_input, app_sentence,
                   chars_typed, should_quit, event_rx>>
    /\ UNCHANGED svars

\* The outer loop of run_websocket_client takes an event: Connect starts a
\* connection attempt, Quit returns, anything else is ignored.
WsWaitEvent ==
    /\ ws_pc = "recv"
    /\ event_rx # <<>>
    /\ event_rx' = Tail(event_rx)
    /\ ws_pc' = IF Head(event_rx) = Connect THEN "connecting"
                ELSE IF Head(event_rx) = Quit THEN "returned"
                ELSE "recv"
    /\ UNCHANGED <<server_ip, startup, state, current_input, app_sentence,
                   chars_typed, should_quit, ui_pc>>
    /\ UNCHANGED svars

\* connect_async returns Ok: set_connected() and the connected loop.
ConnectOk ==
    /\ ws_pc = "connecting"
    /\ state' = "Connected"
    /\ ws_pc' = "linked"
    /\ UNCHANGED <<server_ip, startup, current_input, app_sentence,
                   chars_typed, should_quit, event_rx, ui_pc>>
    /\ UNCHANGED svars

\* connect_async returns Err: set_disconnected(Some("Connection failed")).
ConnectErr ==
    /\ ws_pc = "connecting"
    /\ state' = "Disconnected"
    /\ ws_pc' = "recv"
    /\ UNCHANGED <<server_ip, startup, current_input, app_sentence,
                   chars_typed, should_quit, event_rx, ui_pc>>
    /\ UNCHANGED svars

\* read.next() yields a text message: update_sentence(text).
LinkSnapshot(t) ==
    /\ ws_pc = "linked"
    /\ app_sentence' = update_sentence(app_sentence, t)
    /\ UNCHANGED <<server_ip, startup, state, current_input, chars_typed,
                   should_quit, event_rx, ws_pc, ui_pc>>
    /\ UNCHANGED svars

\* read.next() yields Some(Err) or None: set_disconnected and break.
LinkLost ==
    /\ ws_pc = "linked"
    /\ state' = "Disconnected"
    /\ ws_pc' = "recv"
    /\ UNCHANGED <<server_ip, startup, current_input, app_sentence,
                   chars_typed, should_quit, event_rx, ui_pc>>
    /\ UNCHANGED svars

\* The connected loop takes an event: SendWord is written to the link (ok
\* tells whether the write succeeds), Disconnect breaks, Quit returns and
\* Connect is ignored.
WsLinkedEvent(ok) ==
    /\ ws_pc = "linked"
    /\ event_rx # <<>>
    /\ event_rx' = Tail(event_rx)
    /\ LET e == Head(event_rx) IN
       IF e[1] = "SendWord"
       THEN /\ state' = IF ok THEN state ELSE "Disconnected"
            /\ ws_pc' = IF ok THEN "linked" ELSE "recv"
       ELSE /\ state' = state
            /\ ws_pc' = IF e = Disconnect THEN "recv"
                        ELSE IF e = Quit THEN "returned"
                        ELSE "linked"
    /\ UNCHANGED <<server_ip, startup, current_input, app_sentence,
                   chars_typed, should_quit, ui_pc>>
    /\ UNCHANGED svars

\* The steps of the main task once a quit has been requested.
UiExit == QuitLoop \/ Abort

ClientNext ==
    \/ \E k \in Keys : KeyEvent(k)
    \/ QuitLoop
    \/ Abort
    \/ WsWaitEvent
    \/ ConnectOk
    \/ ConnectErr
    \/ \E t \in Snapshots : LinkSnapshot(t)
    \/ LinkLost
    \/ \E ok \in BOOLEAN : WsLinkedEvent(ok)

ClientSpec == Init /\ [][ClientNext]_vars

\* The main task runs: its loop comes back to the should_quit test within a
\* tick, and the cleanup follows run_app.  Nothing is assumed of the keys,
\* the link or the network task.
FairClientSpec == ClientSpec /\ WF_vars(UiExit)

----------------------------------------------------------------------------
\* The host check at the start of the participant's main.  A host is a
\* sequence of characters; a character is one byte unless it is in
\* TwoByte.  The two parsers are the standard library's: dotted decimal
\* for Ipv4Addr, colon-separated groups for Ipv6Addr.

\* Longest host drawn from HostAlphabet.
MaxHostLen == 3

\* addr.len() > 253
MaxHostBytes == 253

Digit == {"0", "1", "2", "3", "4", "5", "6", "7", "8", "9"}

DigitSeq == <<"0", "1", "2", "3", "4", "5", "6", "7", "8", "9">>

HexLetter == {"a", "b", "c", "d", "e", "f"}

Letter == HexLetter \cup
          {"g", "h", "i", "j", "k", "l", "m", "n", "o", "p", "q", "r", "s",
           "t", "u", "v", "w", "x", "y", "z"}

\* Alphanumeric characters outside ASCII: e with acute accent, two bytes
\* in UTF-8.
TwoByte == {"U+00E9"}

\* char::is_alphanumeric
IsAlphanumeric(ch) == ch \in Letter \cup Digit \cup TwoByte

\* char::len_utf8
LenUtf8(ch) == IF ch \in TwoByte THEN 2 ELSE 1

\* str::len(): the length in bytes
RECURSIVE ByteLen(_)
ByteLen(s) ==
    IF s = <<>> THEN 0
    ELSE IF Len(s) = 1 THEN LenUtf8(s[1])
    ELSE LET h == Len(s) \div 2
         IN ByteLen(SubSeq(s, 1, h)) + ByteLen(SubSeq(s, h + 1, Len(s)))

\* str::split(sep)
RECURSIVE Split(_, _)
Split(s, sep) ==
    IF \A i \in 1 .. Len(s) : s[i] # sep THEN <<s>>
    ELSE LET i == CHOOSE i \in 1 .. Len(s) :
                      s[i] = sep /\ \A j \in 1 .. i - 1 : s[j] # sep
         IN <<SubSeq(s, 1, i - 1)>> \o Split(SubSeq(s, i + 1, Len(s)), sep)

DigitVal(ch) == (CHOOSE i \in 1 .. 10 : DigitSeq[i] = ch) - 1

RECURSIVE Decimal(_)
Decimal(p) ==
    IF p = <<>> THEN 0
    ELSE 10 * Decimal(SubSeq(p, 1, Len(p) - 1)) + DigitVal(p[Len(p)])

\* One part of a dotted quad: one to three digits, no leading zero, at most
\* 255.
IsOctet(p) ==
    /\ Len(p) \in 1 .. 3
    /\ \A i \in 1 .. Len(p) : p[i] \in Digit
    /\ Len(p) > 1 => p[1] # "0"
    /\ Decimal(p) <= 255

\* addr.parse::<Ipv4Addr>().is_ok()
IsIpv4(s) ==
    LET p == Split(s, ".")
    IN Len(p) = 4 /\ \A i \in 1 .. 4 : IsOctet(p[i])

\* One group of an IPv6 address: one to four hexadecimal digits.
IsHexGroup(p) ==
    /\ Len(p) \in 1 .. 4
    /\ \A i \in 1 .. Len(p) : p[i] \in Digit \cup HexLetter

\* The groups of a run of colon-separated groups, none when it is empty.
Groups(s) == IF s = <<>> THEN <<>> ELSE Split(s, ":")

\* Every group is hexadecimal; the last may be a dotted quad when last says
\* so.
GroupsOk(g, last) ==
    \A i \in 1 .. Len(g) :
        IsHexGroup(g[i]) \/ (last /\ i = Len(g) /\ IsIpv4(g[i]))

\* The 16-bit pieces the groups stand for: a dotted quad counts as two.
Pieces(g) ==
    IF g # <<>> /\ IsIpv4(g[Len(g)]) THEN Len(g) + 1 ELSE Len(g)

\* addr.parse::<Ipv6Addr>().is_ok(): eight pieces, or fewer around one "::".
IsIpv6(s) ==
    LET gaps == { i \in 1 .. Len(s) - 1 : s[i] = ":" /\ s[i + 1] = ":" }
    IN IF gaps = {}
       THEN GroupsOk(Groups(s), TRUE) /\ Pieces(Groups(s)) = 8
       ELSE /\ Cardinality(gaps) = 1
            /\ LET i == CHOOSE i \in gaps : TRUE
                   front == Groups(SubSeq(s, 1, i - 1))
                   back == Groups(SubSeq(s, i + 2, Len(s)))
               IN /\ GroupsOk(front, FALSE)
                  /\ GroupsOk(back, TRUE)
                  /\ Len(front) + Pieces(back) <= 7

\* The characters a hostname may be made of.
HostChar(ch) == IsAlphanumeric(ch) \/ ch = "." \/ ch = "-"

\* is_valid_ip_or_hostname
is_valid_ip_or_hostname(addr) ==
    IF IsIpv4(addr) THEN TRUE
    ELSE IF IsIpv6(addr) THEN TRUE
    ELSE IF addr = <<>> \/ ByteLen(addr) > MaxHostBytes THEN FALSE
    ELSE /\ \A i \in 1 .. Len(addr) : HostChar(addr[i])
         /\ addr[1] # "-"
         /\ addr[Len(addr)] # "-"
         /\ addr[1] # "."
         /\ addr[Len(addr)] # "."

\* Characters the short hosts are drawn from.
HostAlphabet == {"a", "1", ".", "-", ":", "_", "U+00E9"}

Repeat(ch, n) == [i \in 1 .. n |-> ch]

ExampleCom == <<"e", "x", "a", "m", "p", "l", "e", ".", "c", "o", "m">>
MinusBadCom == <<"-", "b", "a", "d", ".", "c", "o", "m">>
BadMinusCom == <<"b", "a", "d", "-", ".", "c", "o", "m">>
Loopback6 == <<":", ":", "1">>

\* Hosts around the length limit, in characters and in bytes.
LongHosts ==
    { Repeat("a", MaxHostBytes), Repeat("a", MaxHostBytes + 1),
      Repeat("U+00E9", 126), Repeat("U+00E9", 127) }

\* The host arguments tried.
HostArgs ==
    UNION { [1 .. n -> HostAlphabet] : n \in 0 .. MaxHostLen }
    \cup LongHosts
    \cup { DefaultHost, ExampleCom, MinusBadCom, BadMinusCom, Loopback6 }

HostInit ==
    /\ ServerNew
    /\ server_ip \in HostArgs
    /\ startup = "args"
    /\ AppNew

\* main checks the host: an invalid one ends the process with exit(1).
Validate ==
    /\ startup = "args"
    /\ startup' = IF is_valid_ip_or_hostname(server_ip) THEN "running"
                  ELSE "exit1"
    /\ UNCHANGED <<server_ip, state, current_input, app_sentence,
                   chars_typed, should_quit, event_rx, ws_pc, ui_pc>>
    /\ UNCHANGED svars

HostNext == Validate

HostSpec == HostInit /\ [][HostNext]_vars

----------------------------------------------------------------------------
\* Properties

\* The snapshots receiver c would still be handed by rx.recv().
Pending(c) ==
    { published[i] : i \in ((IF rxNext[c] < Oldest THEN Oldest ELSE rxNext[c]) + 1)
                           .. Len(published) }

\* The one-byte messages among q, as one text.
OneByte(q) ==
    LET v == SelectSeq(q, LAMBDA m : Len(m) = 1)
    IN [i \in 1 .. Len(v) |-> v[i][1]]

\* The one-byte messages of c that its handler has appended: those it sent
\* less those still on the link or held by the handler before push_str.
Applied(c) ==
    LET all == OneByte(contributed[c])
        waiting == Len(OneByte(inbox[c]))
                   + (IF pc[c] \in {"wantLock", "locked"} THEN 1 ELSE 0)
    IN SubSeq(all, 1, Len(all) - waiting)

\* The part of the shared text made of c's characters.
Mine(c) == SelectSeq(sentence, LAMBDA ch : <<ch>> \in Words(c))

IsBlank(m) == \A i \in 1 .. Len(m) : m[i] = " "

\* C1: the snapshots written to one participant's link never get shorter:
\* each is at least as long as the one written before it.
C1_SentNonDecreasing ==
    \A c \in Conn : \A i \in 1 .. Len(sent[c]) - 1 :
        Len(sent[c][i]) <= Len(sent[c][i + 1])

\* C2: the shared text holds every one-byte contribution the handlers have
\* appended exactly once: each participant's contributions appear in the
\* order it sent them, and nothing else is in the text.
C2_AllContributionsOnce ==
    /\ \A c \in Conn : Mine(c) = Applied(c)
    /\ Len(sentence) = SumLen([c \in Conn |-> Applied(c)], Conn)

C2_Witness ==
    /\ \A c \in Conn : Len(Applied(c)) = 1 /\ Len(contributed[c]) = 1
    /\ Len(sentence) = Cardinality(Conn)

\* C3: every step leaves the shared text a prefix-extension of what it was.
C3_PrefixExtension == [][IsPrefix(sentence, sentence')]_vars

C3_Witness ==
    /\ Len(sentence) = 2
    /\ \A c \in Conn : ended[c]

C5_HelloScenario ==
    (/\ contributed["A"] = <<Hello>>
     /\ contributed["B"] = <<>>
     /\ inbox["A"] = <<>>
     /\ pc["A"] = "select")
    => /\ sentence = Hello
       /\ (pc["B"] = "select" /\ ~ended["B"] /\ Pending("B") = {})
            => (sent["B"] # <<>> /\ sent["B"][Len(sent["B"])] = Hello)

\* C6: the step that ends an accepted contribution publishes the resulting
\* shared text, and every subscribed receiver, the contributor's included,
\* then has it pending; outside the critical section the last published
\* value is the shared text.
C6_PublishedToAll ==
    /\ [](lockHolder = None =>
            IF published = <<>> THEN sentence = <<>>
            ELSE published[Len(published)] = sentence)
    /\ [][\A c \in Conn :
            (pc[c] = "appended" /\ pc'[c] # "appended") =>
                /\ published' = Append(published, sentence')
                /\ c \in Subscribed'
                /\ \A d \in Subscribed' : sentence' \in Pending(d)']_vars

C6_Witness ==
    /\ published # <<>>
    /\ Subscribed = Conn
    /\ \A d \in Conn : pc[d] = "select" /\ sentence \in Pending(d)

\* The handler's task has ended. The loop has no break or return: the only
\* way out of it is a panic.
Terminated(c) == pc[c] = "panicked"

\* C7: a handler whose link has ended eventually terminates.
C7_Teardown ==
    \A c \in Conn : (ended[c] /\ pc[c] = "select") ~> Terminated(c)

\* The step is a failure of connection c: its link ends, its handler dies,
\* or a write to its dead link fails.
Fails(c) ==
    \/ ended'[c] /\ ~ended[c]
    \/ pc'[c] = "panicked" /\ pc[c] # "panicked"
    \/ ended[c] /\ pc[c] \in {"sendInit", "forward"} /\ pc'[c] = "select"

C9_NoBlankAppended ==
    \A c \in Conn : pc[c] = "appended" => ~IsBlank(cur[c])

\* C10: the step in which a handler takes a message off its link and rejects
\* it changes neither the shared text nor the channel, sends nothing to the
\* participant and leaves the handler waiting in its loop.
C10_RejectIsSilent ==
    [][\A c \in Conn :
        (/\ pc[c] = "select"
         /\ inbox[c] # <<>>
         /\ inbox'[c] = Tail(inbox[c])
         /\ ~Valid(Head(inbox[c])))
        => /\ UNCHANGED <<sentence, published, lockHolder, sent>>
           /\ pc'[c] = "select"]_vars

C10_Witness ==
    /\ contributed["A"] = <<Hello>>
    /\ inbox["A"] = <<>>
    /\ pc["A"] = "select"
    /\ sentence = <<>>
    /\ sent["A"] = << <<>> >>

\* C11: the snapshots one subscription yields never get shorter, also when
\* the channel dropped values the receiver had not read: the receiver's
\* cursor only moves forward, and a yielded snapshot is at least as long as
\* every value published at or before its position and as every snapshot
\* the handler forwarded from this subscription before.
C11_YieldsNonDecreasing ==
    /\ [][\A c \in Conn : rxNext'[c] >= rxNext[c]]_vars
    /\ [][\A c \in Conn :
            (pc[c] = "select" /\ pc'[c] = "forward") =>
                /\ \A j \in 1 .. rxNext[c] :
                      Len(published[j]) <= Len(cur'[c])
                /\ \A i \in 2 .. Len(sent[c]) :
                      Len(sent[c][i]) <= Len(cur'[c])]_vars

\* B joined an empty session, the channel overflowed and dropped the first
\* published value, and the subscription then yielded the second and the
\* third.
C11_Witness ==
    /\ pc["B"] = "forward" /\ ~ended["B"]
    /\ Len(sent["B"]) = 2
    /\ sent["B"][1] = <<>>
    /\ Len(sent["B"][2]) = 2
    /\ Len(cur["B"]) = 3

\* The handler of c is past the handshake on a link that is open.
LinkOpen(c) == pc[c] \notin {"idle", "handshake", "panicked"} /\ ~ended[c]

\* C12: a participant whose link stays open is eventually sent the final
\* shared text, and the last snapshot it is sent is the final shared text,
\* whether or not the channel dropped snapshots of its subscription.
C12_EventuallyFinal ==
    \A c \in Conn :
        <>[]LinkOpen(c) =>
            <>[](sent[c] # <<>> /\ sent[c][Len(sent[c])] = sentence)

\* C20: a handler's subscription begins after its initial read: while the
\* handler has not yet read the shared text for the initial snapshot, its
\* receiver holds no published snapshot, so it never yields one that was
\* published before that read.
C20_SubscribeAfterInitialRead ==
    \A c \in Conn : pc[c] \in {"handshake", "init"} => Pending(c) = {}

\* C13: whatever the interleaving of key events and network-task events,
\* the phase becomes Connected only from Connecting, and Disconnected only
\* from Connecting or Connected.
C13_PhaseEnteredOnlyFrom ==
    [][/\ (state' = "Connected" /\ state # "Connected")
            => state = "Connecting"
       /\ (state' = "Disconnected" /\ state # "Disconnected")
            => state \in {"Connecting", "Connected"}]_vars

\* A key press that requests the quit.
QuitCommand == \E k \in Keys : KeyEvent(k) /\ should_quit'

\* C14: in every phase, while the UI runs, some key press requests the
\* quit that makes the client exit.
C14_QuitAvailable ==
    (ui_pc = "run" /\ ~should_quit) => ENABLED QuitCommand

\* C15: once a quit is requested, the UI task has left run_app and the
\* network task has returned or been cancelled, eventually.
C15_QuitTerminates ==
    should_quit ~> (ui_pc = "exited" /\ ws_pc \in {"returned", "aborted"})

\* The quit came during a connection attempt: the network task had taken
\* Connect and was cancelled inside connect_async.
C15_Witness ==
    /\ ui_pc = "exited"
    /\ ws_pc = "aborted"
    /\ state = "Connecting"
    /\ event_rx = <<Quit>>

\* C16: Enter on an empty or whitespace-only buffer while Connected queues
\* no event and changes neither chars_typed nor the shared text or its
\* local copy.
C16_BlankSubmitNoEffect ==
    [][(KeyEvent("Enter") /\ state = "Connected"
          /\ Trim(current_input) = <<>>)
        => UNCHANGED <<event_rx, chars_typed, app_sentence, sentence>>]_vars

\* Connected with a whitespace-only buffer, after an earlier word was sent.
C16_Witness ==
    /\ state = "Connected" /\ ui_pc = "run" /\ ~should_quit
    /\ current_input = <<" ", " ">>
    /\ chars_typed = 2
    /\ event_rx = <<>>

\* C17: Enter on a buffer that is non-empty after trimming while Connected
\* queues one SendWord carrying the trimmed buffer, clears the buffer and
\* adds the word's length plus one to chars_typed; chars_typed never
\* decreases.
C17_SubmitWord ==
    /\ [][(KeyEvent("Enter") /\ state = "Connected"
              /\ Trim(current_input) # <<>>)
            => /\ event_rx' = Append(event_rx, SendWord(Trim(current_input)))
               /\ current_input' = <<>>
               /\ chars_typed' =
                     chars_typed + Len(Trim(current_input)) + 1]_vars
    /\ [][chars_typed' >= chars_typed]_vars

\* A second word was just submitted: the first counted 2, this one too.
C17_Witness ==
    /\ state = "Connected"
    /\ current_input = <<>>
    /\ chars_typed = 4
    /\ event_rx = <<SendWord(<<"q">>)>>

\* C18: a snapshot arriving on the link replaces the local copy of the
\* shared text by exactly that snapshot and leaves the input buffer,
\* chars_typed and the phase as they were.
C18_SnapshotReplaces ==
    [][\A t \in Snapshots : LinkSnapshot(t) =>
            /\ app_sentence' = t
            /\ UNCHANGED <<current_input, chars_typed, state>>]_vars

\* The shorter snapshot is held while a word is being typed after another
\* was sent.
C18_Witness ==
    /\ app_sentence = <<"a">>
    /\ state = "Connected"
    /\ current_input = <<"q">>
    /\ chars_typed = 2

\* The rule as claimed: an IPv4 or IPv6 literal, or a hostname within the
\* length and character limits.
ClaimedHost(h) ==
    \/ IsIpv4(h)
    \/ IsIpv6(h)
    \/ /\ h # <<>>
       /\ Len(h) <= 253
       /\ \A i \in 1 .. Len(h) : HostChar(h[i])
       /\ h[1] \notin {".", "-"}
       /\ h[Len(h)] \notin {".", "-"}

\* C19: main goes on exactly when the host is an IPv4 literal, an IPv6
\* literal, or a hostname that is non-empty, at most 253 characters long,
\* made only of alphanumerics, '.' and '-' and neither starting nor ending
\* with '.' or '-'; 127.0.0.1, ::1 and example.com are accepted, and
\* -bad.com, bad-.com, the empty string and a string of 254 characters are
\* rejected.
C19_HostValidation ==
    /\ startup = "running" =>
          /\ ClaimedHost(server_ip)
          /\ server_ip \notin {MinusBadCom, BadMinusCom, <<>>,
                                Repeat("a", 254)}
    /\ startup = "exit1" =>
          /\ ~ClaimedHost(server_ip)
          /\ server_ip \notin {DefaultHost, Loopback6, ExampleCom}

\* The handler is suspended at an await: in the handshake, writing to its
\* link, or waiting in select! on its link and its subscription.
Suspended(c) == pc[c] \in {"handshake", "sendInit", "select", "forward"}

\* C21: a handler suspended on its link or its subscription does not hold
\* the lock, and the handler that holds it can always take its next step,
\* so a handler stuck on a slow or dead link never keeps another from
\* appending.
C21_NoLockAcrossSuspension ==
    \A c \in Conn :
        /\ Suspended(c) => lockHolder # c
        /\ lockHolder = c => ENABLED (AppendMsg(c) \/ Publish(c))

\* B is about to write to a link that has ended while A holds the lock.
C21_Witness ==
    /\ pc["B"] = "forward" /\ ended["B"]
    /\ lockHolder = "A" /\ pc["A"] = "locked"

\* C23: snapshots are published in the order of their appends: the i-th
\* published value is the text after the i-th append, so each published
\* value extends and is longer than every earlier one, and an append is
\* published before the next append happens.
C23_PublishOrder ==
    /\ \A i \in 1 .. Len(published) :
          /\ Len(published[i]) = i
          /\ IsPrefix(published[i], sentence)
    /\ \A i \in 1 .. Len(published), j \in 1 .. Len(published) :
          i < j => Len(published[i]) < Len(published[j])
    /\ Len(sentence) - Len(published) =
          (IF \E c \in Conn : pc[c] = "appended" THEN 1 ELSE 0)

\* Both handlers have had a contribution accepted, A's first.
C23_Witness ==
    published = << <<"a">>, <<"a", "b">> >>

\* C25: a handler's wait never has both sources unusable: it never waits
\* in select! with its link ended, nothing left to read from it, and the
\* receive branch disabled by a report of dropped snapshots; the loop does
\* not abort.
C25_LoopNeverAborts ==
    \A c \in Conn :
        pc[c] = "select" => ~(ended[c] /\ inbox[c] = <<>> /\ rxDisabled[c])

\* C22: neither source of a handler's loop is starved: a handler waiting
\* on an open link with a snapshot pending in its subscription eventually
\* has one to forward, and a message waiting on its link is eventually
\* taken.
C22_NoStarvation ==
    /\ \A c \in Conn :
          (LinkOpen(c) /\ pc[c] = "select" /\ Pending(c) # {})
              ~> (pc[c] = "forward" \/ ~LinkOpen(c))
    /\ \A c \in Conn :
          (pc[c] = "select" /\ inbox[c] # <<>>) ~> (inbox[c] = <<>>)

\* C24: while the client runs, phase Connected means the network task is
\* in its connected loop, holding the link; and at no time is the phase
\* Connected with the network task waiting for a Connect or inside a
\* connection attempt.
C24_ConnectedHasLink ==
    state = "Connected" =>
        /\ ws_pc \notin {"recv", "connecting"}
        /\ ui_pc = "run" => ws_pc = "linked"

====
